---- MODULE Spec2Model ----
(***************************************************************************)
(* Model of the 3x4 keypad driver (src/src/lib.rs): the scan performed by  *)
(* Keypad::read_char, step by step, and the pure decoder Keypad::convert.  *)
(*                                                                         *)
(* Pins and the delay are the driver's collaborators.  The level of each   *)
(* column pin is state; what a row pin reports is an input of the step     *)
(* that reads it ("low", "high", or "err" for a failed read); a column     *)
(* write either takes effect or fails and leaves the level as it was.      *)
(***************************************************************************)
EXTENDS Integers, Sequences, FiniteSets, TLC

\* ------------------------------------------------------------------ bounds
\* At most MaxLow row samples read low in one read_char call.
MaxLow == 3
\* At most MaxFail single pin operations fail in one read_char call
\* (the reads of a dead row pin, see deadRows, are not counted).
MaxFail == 1

\* ------------------------------------------------------------ pins, values
Rows == 0 .. 3
Columns == 0 .. 2
Levels == {"low", "high"}

\* u16 arithmetic
U16 == 65536

Shl(a, n) == (a * (2 ^ n)) % U16

RECURSIVE BitOr(_, _)
BitOr(a, b) ==
    IF a = 0 THEN b
    ELSE IF b = 0 THEN a
    ELSE (IF a % 2 = 1 \/ b % 2 = 1 THEN 1 ELSE 0) + 2 * BitOr(a \div 2, b \div 2)

\* KEY_* constants, lib.rs 164-175
KEY_1 == 1
KEY_4 == Shl(1, 1)
KEY_7 == Shl(1, 2)
\* KEY_STAR given the shift of KEY_7.
KEY_STAR_Dup == Shl(1, 2)
KEY_STAR == Shl(1, 3)
KEY_2 == Shl(1, 4)
KEY_5 == Shl(1, 5)
KEY_8 == Shl(1, 6)
KEY_0 == Shl(1, 7)
KEY_3 == Shl(1, 8)
KEY_6 == Shl(1, 9)
KEY_9 == Shl(1, 10)
\* KEY_HASH shifted one bit too far.
KEY_HASH_Far == Shl(1, 12)
KEY_HASH == Shl(1, 11)

\* convert with `_ => 0` as its last arm.
convert_default_zero(value) ==
    CASE value = KEY_1 -> 1
      [] value = KEY_4 -> 4
      [] value = KEY_7 -> 7
      [] value = KEY_STAR -> -1
      [] value = KEY_2 -> 2
      [] value = KEY_5 -> 5
      [] value = KEY_8 -> 8
      [] value = KEY_0 -> 0
      [] value = KEY_3 -> 3
      [] value = KEY_6 -> 6
      [] value = KEY_9 -> 9
      [] value = KEY_HASH -> -2
      [] OTHER -> 0

\* Keypad::convert: the match on the raw value, last arm the sentinel.
convert(value) ==
    CASE value = KEY_1 -> 1
      [] value = KEY_4 -> 4
      [] value = KEY_7 -> 7
      [] value = KEY_STAR -> -1
      [] value = KEY_2 -> 2
      [] value = KEY_5 -> 5
      [] value = KEY_8 -> 8
      [] value = KEY_0 -> 0
      [] value = KEY_3 -> 3
      [] value = KEY_6 -> 6
      [] value = KEY_9 -> 9
      [] value = KEY_HASH -> -2
      [] OTHER -> -10

\* `value as u32` of an i16: sign extension to 32 bits, kept as its two
\* 16-bit halves (the 32-bit value is hi * 65536 + lo).
AsU32(v) == IF v >= 0 THEN [hi |-> 0, lo |-> v] ELSE [hi |-> U16 - 1, lo |-> U16 + v]

\* An Option is a sequence of length 0 (None) or 1 (Some).
None == << >>
Some(x) == << x >>

DigitChars == << "0", "1", "2", "3", "4", "5", "6", "7", "8", "9" >>

\* char::from_digit(num, radix) for radix <= 10: Some digit iff num < radix.
from_digit(num, radix) ==
    IF num.hi = 0 /\ num.lo < radix THEN Some(DigitChars[num.lo + 1]) ELSE None

\* get_char with unwrap_or(' ') in place of unwrap.
get_char_or_space(raw_value) ==
    LET value == convert(raw_value)
    IN  CASE value = -1 -> Some("*")
          [] value = -2 -> Some("#")
          [] from_digit(AsU32(value), 10) = None -> Some(" ")
          [] OTHER -> from_digit(AsU32(value), 10)

\* Keypad::get_char up to the unwrap: None is the value whose unwrap panics.
get_char(raw_value) ==
    LET value == convert(raw_value)
    IN  CASE value = -1 -> Some("*")
          [] value = -2 -> Some("#")
          [] OTHER -> from_digit(AsU32(value), 10)

\* InputPin::is_low as a Result<bool, E>: Ok(b) is <<b>>, Err is << >>.
is_low(reading) ==
    CASE reading = "low" -> Some(TRUE)
      [] reading = "high" -> Some(FALSE)
      [] OTHER -> None

\* unwrap_or(true) in place of unwrap_or_default.
unwrap_or_true(r) == IF Len(r) = 1 THEN r[1] ELSE TRUE

\* Result::unwrap_or_default for bool: the default of bool is false.
unwrap_or_default(r) == IF Len(r) = 1 THEN r[1] ELSE FALSE

\* The third block given the shift of the second.
ColShiftDup == << 0, 4, 4 >>

\* The shift applied to each column's nibble in Keypad::read.
ColShift == << 0, 4, 8 >>

\* ------------------------------------------------------------------- state
VARIABLES
    pc,         \* position in read_char; "idle" before the first call
    col,        \* column being scanned in Keypad::read
    row,        \* next row to sample in Keypad::read_column
    res,        \* accumulator of Keypad::read (the raw scan result)
    cres,       \* accumulator of Keypad::read_column
    columns,    \* level of each column pin
    deadRows,   \* row pins that are dead in this call: every read of them fails
    log,        \* pin and delay operations of the current call, in order
    result,     \* the character returned by the last completed call
    arg,        \* argument of the last direct call of convert (an Option)
    ret,        \* its return value (an Option)
    ref,        \* history: the lows seen and the character returned by a
                \* completed call that an observer chose to remember
    key         \* the key held down, as << row, column >>, where the rows
                \* are wired to the columns through the key matrix (SpecWired)

vars == << pc, col, row, res, cres, columns, deadRows, log, result, arg, ret, ref, key >>

NoChar == "none"
NoKey == << >>
NoRef == [lows |-> {}, result |-> NoChar, prior |-> FALSE]

\* ----------------------------------------------------- the call's history
Count(l, op, outcome) ==
    Cardinality({i \in DOMAIN l : l[i][1] = op /\ l[i][3] = outcome})

NumLow(l) == Count(l, "is_low", "low")
NumFail(l) ==
    Count(l, "set_low", "err") + Count(l, "set_high", "err")
        + Cardinality({i \in DOMAIN l : /\ l[i][1] = "is_low"
                                        /\ l[i][3] = "err"
                                        /\ l[i][2] \notin deadRows})

\* What the environment may answer to the next row read / column write.
Readings ==
    IF row \in deadRows THEN {"err"}
    ELSE {"high"} \cup (IF NumLow(log) < MaxLow THEN {"low"} ELSE {})
                  \cup (IF NumFail(log) < MaxFail THEN {"err"} ELSE {})

WriteOutcomes == {"ok"} \cup (IF NumFail(log) < MaxFail THEN {"err"} ELSE {})

\* OutputPin::set_low / set_high: a failed write leaves the level unchanged.
Write(levels, c, level, outcome) ==
    IF outcome = "ok" THEN [levels EXCEPT ![c] = level] ELSE levels

\* -------------------------------------------------------------------- Init
\* Keypad::new stores the pins and writes nothing: the columns have whatever
\* levels the caller left them at.
Init ==
    /\ pc = "idle"
    /\ col = 0
    /\ row = 0
    /\ res = 0
    /\ cres = 0
    /\ columns \in [Columns -> Levels]
    /\ deadRows = {}
    /\ log = << >>
    /\ result = NoChar
    /\ arg = None
    /\ ret = None
    /\ ref = NoRef
    /\ key = NoKey

\* ----------------------------------------------------------------- actions
\* read without `let mut res = 0`: the accumulator outlives the call.
ReadCharKeepsRes ==
    /\ pc \in {"idle", "done"}
    /\ pc' = "set_low"
    /\ col' = 0
    /\ log' = << >>
    /\ result' = NoChar
    /\ deadRows' \in SUBSET Rows
    /\ ref' = IF ref = NoRef THEN ref ELSE [ref EXCEPT !.prior = TRUE]
    /\ UNCHANGED << row, res, cres, columns, arg, ret, key >>

\* read_char entry and the entry of read: `let mut res = 0`.
ReadChar ==
    /\ pc \in {"idle", "done"}
    /\ pc' = "set_low"
    /\ col' = 0
    /\ res' = 0
    /\ log' = << >>
    /\ result' = NoChar
    /\ deadRows' \in SUBSET Rows
    /\ ref' = IF ref = NoRef THEN ref ELSE [ref EXCEPT !.prior = TRUE]
    /\ UNCHANGED << row, cres, columns, arg, ret, key >>

\* The third block drives columns.1 low again.
SetLowWrongPin ==
    /\ pc = "set_low"
    /\ \E outcome \in WriteOutcomes :
        LET pin == IF col = 2 THEN 1 ELSE col
        IN  /\ columns' = Write(columns, pin, "low", outcome)
            /\ log' = Append(log, << "set_low", pin, outcome >>)
    /\ cres' = 0
    /\ pc' = "delay"
    /\ UNCHANGED << col, row, res, deadRows, result, arg, ret, ref, key >>

\* self.columns.N.set_low().unwrap_or_default(), then the entry of
\* read_column: `let mut res = 0`.
SetLow ==
    /\ pc = "set_low"
    /\ \E outcome \in WriteOutcomes :
        /\ columns' = Write(columns, col, "low", outcome)
        /\ log' = Append(log, << "set_low", col, outcome >>)
    /\ cres' = 0
    /\ pc' = "delay"
    /\ UNCHANGED << col, row, res, deadRows, result, arg, ret, ref, key >>

\* The settle delay taken for the first column only.
DelayMsFirstOnly ==
    /\ pc = "delay"
    /\ log' = IF col = 0 THEN Append(log, << "delay_ms", 1, "ok" >>) ELSE log
    /\ row' = 0
    /\ pc' = "is_low"
    /\ UNCHANGED << col, res, cres, columns, deadRows, result, arg, ret, ref, key >>

\* delay.delay_ms(1u16)
DelayMs ==
    /\ pc = "delay"
    /\ log' = Append(log, << "delay_ms", 1, "ok" >>)
    /\ row' = 0
    /\ pc' = "is_low"
    /\ UNCHANGED << col, res, cres, columns, deadRows, result, arg, ret, ref, key >>

\* A failed row read is tried again: the row advances only on Ok.
IsLowRetry ==
    /\ pc = "is_low"
    /\ \E reading \in Readings :
        /\ cres' = IF unwrap_or_default(is_low(reading))
                   THEN BitOr(cres, Shl(1, row))
                   ELSE cres
        /\ log' = Append(log, << "is_low", row, reading >>)
        /\ IF is_low(reading) = None
           THEN /\ row' = row
                /\ pc' = pc
           ELSE IF row < 3
                THEN /\ row' = row + 1
                     /\ pc' = pc
                ELSE /\ row' = 0
                     /\ pc' = "ret_col"
    /\ UNCHANGED << col, res, columns, deadRows, result, arg, ret, ref, key >>

\* if self.rows.N.is_low().unwrap_or_default() { res |= 1 << N; }
IsLow ==
    /\ pc = "is_low"
    /\ \E reading \in Readings :
        /\ cres' = IF unwrap_or_default(is_low(reading))
                   THEN BitOr(cres, Shl(1, row))
                   ELSE cres
        /\ log' = Append(log, << "is_low", row, reading >>)
    /\ IF row < 3
       THEN /\ row' = row + 1
            /\ pc' = pc
       ELSE /\ row' = 0
            /\ pc' = "ret_col"
    /\ UNCHANGED << col, res, columns, deadRows, result, arg, ret, ref, key >>

\* `res =` in place of `res |=`: each column overwrites the ones before.
ReadColumnReturnAssign ==
    /\ pc = "ret_col"
    /\ res' = Shl(cres, ColShift[col + 1])
    /\ cres' = 0
    /\ pc' = "set_high"
    /\ UNCHANGED << col, row, columns, deadRows, log, result, arg, ret, ref, key >>

\* return of read_column into read: res |= self.read_column(delay) << shift
ReadColumnReturn ==
    /\ pc = "ret_col"
    /\ res' = BitOr(res, Shl(cres, ColShift[col + 1]))
    /\ cres' = 0
    /\ pc' = "set_high"
    /\ UNCHANGED << col, row, columns, deadRows, log, result, arg, ret, ref, key >>

\* The third block returns without driving columns.2 high.
SetHighSkipsLast ==
    /\ pc = "set_high"
    /\ IF col < 2
       THEN /\ \E outcome \in WriteOutcomes :
                /\ columns' = Write(columns, col, "high", outcome)
                /\ log' = Append(log, << "set_high", col, outcome >>)
            /\ col' = col + 1
            /\ pc' = "set_low"
       ELSE /\ UNCHANGED << columns, log >>
            /\ col' = 0
            /\ pc' = "decode"
    /\ UNCHANGED << row, res, cres, deadRows, result, arg, ret, ref, key >>

\* self.columns.N.set_high().unwrap_or_default(); after column 2, read
\* returns res.
SetHigh ==
    /\ pc = "set_high"
    /\ \E outcome \in WriteOutcomes :
        /\ columns' = Write(columns, col, "high", outcome)
        /\ log' = Append(log, << "set_high", col, outcome >>)
    /\ IF col < 2
       THEN /\ col' = col + 1
            /\ pc' = "set_low"
       ELSE /\ col' = 0
            /\ pc' = "decode"
    /\ UNCHANGED << row, res, cres, deadRows, result, arg, ret, ref, key >>

\* The character read_char computes from raw, as an Option (None: panic).
read_char_value(raw) == IF raw # 0 THEN get_char(raw) ELSE Some(" ")

\* A blocking read: with no key down (raw zero) read_char scans again
\* in place of returning the space.
ReadCharReturnWaits ==
    /\ pc = "decode"
    /\ read_char_value(res) # None
    /\ IF res = 0
       THEN /\ pc' = "set_low"
            /\ log' = << >>
            /\ UNCHANGED result
       ELSE /\ pc' = "done"
            /\ result' = read_char_value(res)[1]
            /\ UNCHANGED log
    /\ UNCHANGED << col, row, res, cres, columns, deadRows, arg, ret, ref, key >>

\* read_char returns: raw is zero, or get_char's unwrap succeeds.
ReadCharReturn ==
    /\ pc = "decode"
    /\ read_char_value(res) # None
    /\ result' = read_char_value(res)[1]
    /\ pc' = "done"
    /\ UNCHANGED << col, row, res, cres, columns, deadRows, log, arg, ret, ref, key >>

\* char::from_digit(..) is None and unwrap panics: the program stops here.
GetCharPanic ==
    /\ pc = "decode"
    /\ read_char_value(res) = None
    /\ pc' = "panic"
    /\ UNCHANGED << col, row, res, cres, columns, deadRows, log, result, arg, ret, ref, key >>

Next ==
    \/ ReadChar
    \/ SetLow
    \/ DelayMs
    \/ IsLow
    \/ ReadColumnReturn
    \/ SetHigh
    \/ ReadCharReturn
    \/ GetCharPanic

Spec == Init /\ [][Next]_vars

\* The steps inside a call.  The code is straight-line: once read_char is
\* entered each step follows the one before, the delay included provided
\* delay_ms returns; whether read_char is called again is up to the caller.
Step ==
    \/ SetLow
    \/ DelayMs
    \/ IsLow
    \/ ReadColumnReturn
    \/ SetHigh
    \/ ReadCharReturn
    \/ GetCharPanic

SpecLive == Init /\ [][Next]_vars /\ WF_vars(Step)

\* --------------------------------------------------- the decoder, directly
\* Keypad::convert is public: a caller may hand it any u16.  The argument
\* is drawn by InitConvert; the call computes the return value.
Convert ==
    /\ pc = "idle"
    /\ arg # None
    /\ ret = None
    /\ ret' = Some(convert(arg[1]))
    /\ UNCHANGED << pc, col, row, res, cres, columns, deadRows, log, result, arg, ref, key >>

InitConvert ==
    /\ pc = "idle"
    /\ col = 0
    /\ row = 0
    /\ res = 0
    /\ cres = 0
    /\ columns = [c \in Columns |-> "high"]
    /\ deadRows = {}
    /\ log = << >>
    /\ result = NoChar
    /\ arg \in {Some(value) : value \in 0 .. (U16 - 1)}
    /\ ret = None
    /\ ref = NoRef
    /\ key = NoKey

NextConvert == Convert

SpecConvert == InitConvert /\ [][NextConvert]_vars

\* ------------------------------------------------- remembering a past call
\* The (row, column) samples of the call that read low: the column of a
\* sample is the column of the last set_low before it.
ColAt(l, i) == Cardinality({j \in 1 .. i : l[j][1] = "set_low"}) - 1

LowKeys(l) ==
    {<< l[i][2], ColAt(l, i) >> : i \in {j \in DOMAIN l : l[j][1] = "is_low" /\ l[j][3] = "low"}}

\* An observer notes what a completed call saw and returned.
Remember ==
    /\ pc = "done"
    /\ ref' = [lows |-> LowKeys(log), result |-> result, prior |-> FALSE]
    /\ UNCHANGED << pc, col, row, res, cres, columns, deadRows, log, result, arg, ret, key >>

NextMem ==
    \/ Next
    \/ Remember

SpecMem == Init /\ [][NextMem]_vars

\* ------------------------------------------- rows wired through the matrix
Keys == Rows \X Columns

\* The level of row pin r: pulled low exactly when the held key sits in
\* row r on a column that is low now.
WiredLevel(r) ==
    IF key # NoKey /\ key[1] = r /\ columns[key[2]] = "low" THEN "low" ELSE "high"

WiredReadings ==
    IF row \in deadRows THEN {"err"}
    ELSE {WiredLevel(row)} \cup (IF NumFail(log) < MaxFail THEN {"err"} ELSE {})

\* IsLow with the rows wired: the read reports the row's level, or fails.
IsLowWired ==
    /\ pc = "is_low"
    /\ \E reading \in WiredReadings :
        /\ cres' = IF unwrap_or_default(is_low(reading))
                   THEN BitOr(cres, Shl(1, row))
                   ELSE cres
        /\ log' = Append(log, << "is_low", row, reading >>)
    /\ IF row < 3
       THEN /\ row' = row + 1
            /\ pc' = pc
       ELSE /\ row' = 0
            /\ pc' = "ret_col"
    /\ UNCHANGED << col, res, columns, deadRows, result, arg, ret, ref, key >>

\* The caller hands the columns over inactive (high) and at most one key is
\* held down, the same key throughout.
InitWired ==
    /\ pc = "idle"
    /\ col = 0
    /\ row = 0
    /\ res = 0
    /\ cres = 0
    /\ columns = [c \in Columns |-> "high"]
    /\ deadRows = {}
    /\ log = << >>
    /\ result = NoChar
    /\ arg = None
    /\ ret = None
    /\ ref = NoRef
    /\ key \in Keys \cup {NoKey}

NextWired ==
    \/ ReadChar
    \/ SetLow
    \/ DelayMs
    \/ IsLowWired
    \/ ReadColumnReturn
    \/ SetHigh
    \/ ReadCharReturn
    \/ GetCharPanic

SpecWired == InitWired /\ [][NextWired]_vars

\* ------------------------------------------------------------ type invariant
TypeOK ==
    /\ pc \in {"idle", "set_low", "delay", "is_low", "ret_col", "set_high",
               "decode", "done", "panic"}
    /\ col \in Columns
    /\ row \in Rows
    /\ res \in 0 .. (U16 - 1)
    /\ cres \in 0 .. 15
    /\ columns \in [Columns -> Levels]
    /\ deadRows \subseteq Rows
    /\ Len(log) <= 21
\* ================================================================== claims
\* The call has run to its end: read has returned, or read_char has
\* returned or panicked.
Finished == pc \in {"done", "panic"}

KeyChars == {"0", "1", "2", "3", "4", "5", "6", "7", "8", "9", "*", "#"}

\* The label printed on the key at row r of column c.
Label(r, c) ==
    << << "1", "4", "7", "*" >>,
       << "2", "5", "8", "0" >>,
       << "3", "6", "9", "#" >> >>[c + 1][r + 1]


\* C1: whatever the row pins read during a scan (no low sample, one, or
\* several), read_char never fails and the character it returns is a key
\* character or the space.
C1_AlwaysReturnsChar ==
    /\ pc # "panic"
    /\ pc = "done" => result \in KeyChars \cup {" "}

\* C2: a call in which exactly one sample reads low, row r under column c,
\* returns the label of key (r, c); and a call returns that label only when
\* (r, c) is the single low sample.
C2_SingleLowGivesLabel ==
    \A k \in Keys :
        /\ (Finished /\ LowKeys(log) = {k}) => (pc = "done" /\ result = Label(k[1], k[2]))
        /\ (pc = "done" /\ result = Label(k[1], k[2])) => LowKeys(log) = {k}

C2_Witness ==
    /\ pc = "done"
    /\ LowKeys(log) = {<< 1, 1 >>}
    /\ result = "5"

\* C3: read_char returns the space exactly when no row sample of the call
\* read low, which is exactly when the raw scan result is zero.
C3_SpaceIffNoLow ==
    Finished =>
        /\ (pc = "done" /\ result = " ") <=> (LowKeys(log) = {})
        /\ (pc = "done" /\ result = " ") <=> (res = 0)

C3_Witness ==
    /\ pc = "done"
    /\ LowKeys(log) = {}
    /\ result = " "
    /\ deadRows = {}

\* The documented value of the key at bit k = row + 4 * column.
KeyValue == << 1, 4, 7, -1, 2, 5, 8, 0, 3, 6, 9, -2 >>

SingleKeyBits == {2 ^ k : k \in 0 .. 11}

\* C4: for each single-bit raw value 1 << k, k in 0..11, convert returns
\* the documented key value of bit k.
C4_ConvertSingleBit ==
    \A k \in 0 .. 11 :
        (arg = Some(2 ^ k) /\ ret # None) => ret = Some(KeyValue[k + 1])

C4_Witness ==
    /\ arg = Some(2 ^ 11)
    /\ ret = Some(-2)

\* C5: for every other 16-bit raw value (zero, two or more bits, the single
\* bits 12..15) convert returns the sentinel -10; so convert always returns
\* a member of {-10, -2, -1, 0..9}.
C5_ConvertSentinel ==
    ret # None =>
        /\ arg[1] \notin SingleKeyBits => ret[1] = -10
        /\ ret[1] \in {-10, -2, -1} \cup (0 .. 9)

C5_Witness ==
    /\ arg = Some(17)
    /\ ret = Some(-10)
\* read has returned: every pin operation of the call has been made.
Scanned == pc \in {"decode", "done", "panic"}

\* The column writes of the call, in order, as (operation, pin).
ColumnWrites(l) ==
    LET w == SelectSeq(l, LAMBDA e : e[1] \in {"set_low", "set_high"})
    IN  [i \in 1 .. Len(w) |-> << w[i][1], w[i][2] >>]

ExpectedWrites ==
    << << "set_low", 0 >>, << "set_high", 0 >>,
       << "set_low", 1 >>, << "set_high", 1 >>,
       << "set_low", 2 >>, << "set_high", 2 >> >>

IsPrefix(a, b) == Len(a) <= Len(b) /\ a = SubSeq(b, 1, Len(a))

\* C6: the column writes of a call are, in order, col0 low, col0 high,
\* col1 low, col1 high, col2 low, col2 high: always a prefix of that
\* sequence and, once the scan is over, all of it, whatever the rows read.
C6_ColumnWriteOrder ==
    /\ IsPrefix(ColumnWrites(log), ExpectedWrites)
    /\ Scanned => ColumnWrites(log) = ExpectedWrites

C6_Witness ==
    /\ pc = "done"
    /\ result \in KeyChars
    /\ ColumnWrites(log) = ExpectedWrites

NoWriteFailed(l) == Count(l, "set_low", "err") + Count(l, "set_high", "err") = 0

AllHigh == \A c \in Columns : columns[c] = "high"

\* C7: when a read_char call returns and none of its column writes failed,
\* all three column pins are high, after every call of every sequence of
\* calls and whatever the levels before the call.
C7_ColumnsHighOnReturn ==
    (pc = "done" /\ NoWriteFailed(log)) => AllHigh

C7_Witness ==
    /\ pc = "done"
    /\ NoWriteFailed(log)
    /\ NumLow(log) = 1
    /\ AllHigh

\* C8: a call that saw the same lows as an earlier, remembered call returns
\* the character that call returned, whatever happened in between.
C8_SameReadingsSameChar ==
    (pc = "done" /\ ref.prior /\ ref.lows = LowKeys(log)) => result = ref.result

C8_Witness ==
    /\ pc = "done"
    /\ ref.prior
    /\ ref.lows = LowKeys(log)
    /\ result = ref.result
    /\ result \in KeyChars

Delays(l) == {i \in DOMAIN l : l[i][1] = "delay_ms"}

\* C9: the delay is called for 1 ms, directly after the set_low of a column,
\* at most once per column; every row sample follows the delay of its
\* column; a finished scan has made exactly 3 delays.
C9_DelayPerColumn ==
    /\ \A i \in Delays(log) :
        /\ log[i][2] = 1
        /\ i > 1
        /\ log[i - 1][1] = "set_low"
        /\ log[i - 1][2] = ColAt(log, i)
    /\ \A c \in Columns : Cardinality({i \in Delays(log) : ColAt(log, i) = c}) <= 1
    /\ \A i \in DOMAIN log :
        log[i][1] = "is_low" =>
            \E j \in Delays(log) : j < i /\ ColAt(log, j) = ColAt(log, i)
    /\ Scanned => Cardinality(Delays(log)) = 3

C9_Witness ==
    /\ pc = "done"
    /\ Cardinality(Delays(log)) = 3
    /\ NumLow(log) = 1

Bit(x, k) == (x \div (2 ^ k)) % 2 = 1

FailedReads(l) == {i \in DOMAIN l : l[i][1] = "is_low" /\ l[i][3] = "err"}

\* C10: a failed row read leaves the bit of its (row, active column) clear
\* in the raw result, as a read of high does; a call whose 12 row reads all
\* fail returns the space.
C10_FailedReadIsHigh ==
    /\ Scanned =>
        \A i \in FailedReads(log) : ~Bit(res, log[i][2] + 4 * ColAt(log, i))
    /\ (Finished /\ Cardinality(FailedReads(log)) = 12) => (pc = "done" /\ result = " ")

C10_Witness ==
    /\ pc = "done"
    /\ Cardinality(FailedReads(log)) = 12
    /\ result = " "
\* C11: with at most one key held and the rows wired through the matrix,
\* whichever row reads and column writes fail, a read_char call never
\* panics: it returns a key character or the space.
C11_NoPanicOnPinFailure ==
    Finished => (pc = "done" /\ result \in KeyChars \cup {" "})

\* A read_char call is under way.
InCall == pc \in {"set_low", "delay", "is_low", "ret_col", "set_high", "decode"}

LowColumns == {c \in Columns : columns[c] = "low"}

\* C12: at every point of a read_char call at most one column pin is low,
\* and while the rows are sampled the column being scanned is the only low
\* column.
C12_AtMostOneColumnLow ==
    /\ InCall => Cardinality(LowColumns) <= 1
    /\ pc = "is_low" => LowColumns = {col}

\* C13: a call in which two or more row samples read low ends in the panic
\* of get_char's unwrap, convert having returned the sentinel -10; the
\* panic comes after all six column writes, so with the columns high again
\* unless a write failed.
C13_MultiLowPanics ==
    /\ (Finished /\ Cardinality(LowKeys(log)) >= 2) =>
            (pc = "panic" /\ convert(res) = -10)
    /\ pc = "panic" =>
            /\ ColumnWrites(log) = ExpectedWrites
            /\ NoWriteFailed(log) => AllHigh

C13_Witness ==
    /\ pc = "panic"
    /\ Cardinality(LowKeys(log)) = 2
    /\ convert(res) = -10
    /\ AllHigh

\* C14: bit r + 4c of the raw scan result is set exactly when row r read
\* low in the sample taken under column c; bits 12..15 are clear, so the
\* raw value is below 4096.
C14_RawBitIffLowSample ==
    Scanned =>
        /\ \A k \in 0 .. 15 :
            Bit(res, k) <=> (k < 12 /\ << k % 4, k \div 4 >> \in LowKeys(log))
        /\ res < 4096

C14_Witness ==
    /\ Scanned
    /\ LowKeys(log) = {<< 1, 1 >>, << 3, 2 >>}
    /\ res = 2 ^ 5 + 2 ^ 11

\* The pin and delay operations of a call, in order, as (operation, pin).
Ops(l) == [i \in 1 .. Len(l) |-> << l[i][1], l[i][2] >>]

\* For each column in turn: set_low, the delay, rows 0..3 read, set_high.
ExpectedOps ==
    [i \in 1 .. 21 |->
        LET c == (i - 1) \div 7
            k == (i - 1) % 7
        IN  CASE k = 0 -> << "set_low", c >>
              [] k = 1 -> << "delay_ms", 1 >>
              [] k = 6 -> << "set_high", c >>
              [] OTHER -> << "is_low", k - 2 >>]

\* C15: whichever pin operations fail, a call makes each operation once, in
\* the fixed order: per column one set_low, rows 0, 1, 2, 3 read once each,
\* one set_high; nothing is retried and nothing is skipped.
C15_EachOperationOnce ==
    /\ IsPrefix(Ops(log), ExpectedOps)
    /\ Scanned => Ops(log) = ExpectedOps

C15_Witness ==
    /\ pc = "done"
    /\ Count(log, "set_low", "err") = 1
    /\ Cardinality(FailedReads(log)) >= 3
    /\ Ops(log) = ExpectedOps

\* The row reads of the call, in order.
Samples(l) == SelectSeq(l, LAMBDA e : e[1] = "is_low")

\* All 12 samples were taken; row r read low every time, the others high.
StuckLow(l, r) ==
    /\ Len(Samples(l)) = 12
    /\ \A i \in 1 .. 12 :
        Samples(l)[i][3] = (IF Samples(l)[i][2] = r THEN "low" ELSE "high")

AllReadHigh(l) ==
    /\ Len(Samples(l)) = 12
    /\ \A i \in 1 .. 12 : Samples(l)[i][3] = "high"

\* C16: a call in which one row pin reads low on every sample and the
\* other rows read high returns a key character; a call in which every
\* sample reads high returns the space.
C16_StuckPinReadsAsKey ==
    /\ \A r \in Rows :
        (Finished /\ StuckLow(log, r)) => (pc = "done" /\ result \in KeyChars)
    /\ (Finished /\ AllReadHigh(log)) => (pc = "done" /\ result = " ")

\* C17: a read_char call that has started comes to its end, whatever the
\* rows read, after at most 21 pin and delay operations; a finished scan has
\* made exactly 6 column writes, 3 delays and 12 row reads.
C17_CallCompletes ==
    /\ [](Len(log) <= 21)
    /\ [](Scanned => /\ Len(ColumnWrites(log)) = 6
                     /\ Cardinality(Delays(log)) = 3
                     /\ Len(Samples(log)) = 12)
    /\ (InCall ~> Finished)

C17_Witness ==
    /\ pc = "done"
    /\ Len(log) = 21
    /\ AllReadHigh(log)
    /\ result = " "
====
